---- MODULE Spec2Model ----
(***************************************************************************)
(* OpenMCS-Agent: the supervisor/worker orchestration graph                *)
(* (core/multi_agent.py, ui/worker.py), the process-wide session context   *)
(* slot with the memory tools (core/context_manager.py,                    *)
(* tools/memory_tool.py) and the knowledge-base indexer                    *)
(* (tools/rag_tool.py).                                                    *)
(*                                                                         *)
(* The specifications share the variables:                                 *)
(*   Spec      one thread of conversation run turn by turn through the     *)
(*             graph                                                       *)
(*   SpecCtx   worker invocations and memory-tool calls against the slot   *)
(*   SpecTag   the identity-tagging step applied repeatedly to one message *)
(*   SpecIdx   update_knowledge_base_from_files against a small file system*)
(*   SpecPaths the same tool called repeatedly on files that do not change *)
(*   SpecRag   rag_answer and add_to_knowledge_base on the vector store    *)
(*   SpecUi    the chat window: turns and the Reset button                 *)
(*   SpecCode  create_file and execute_python_file (tools/code_tools.py)   *)
(*   SpecRace  two sessions sharing the context slot in one process        *)
(*   SpecBatch step3_vectorize_and_store (init_database.py)                *)
(***************************************************************************)
EXTENDS Integers, Sequences, FiniteSets, TLC

VARIABLES
    \* --- orchestration graph (AgentState + the run of one turn) ---
    messages,     \* AgentState.messages of the thread (checkpointed)
    next,         \* AgentState.next
    node,         \* the node the graph is about to execute
    last,         \* the node executed last in this turn ("START" at its start)
    steps,        \* node executions of this turn
    status,       \* "ready" | "running" | "done" | "raised" | "emitted"
    errKind,      \* what agent.invoke raised ("none" when nothing)
    emitted,      \* what AgentWorker.run sent through result_ready
    emits,        \* result_ready.emit calls of this turn
    supOut,       \* the Supervisor model's output of the last supervisor_node
    produced,     \* messages the agent loop appended in the last worker_node
    returned,     \* new_messages the last worker_node returned
    is_vision,     \* whether llm.model_name matches a vision keyword
    turns,        \* turns started on this thread
    \* --- session context ---
    _global_context,  \* the process-wide slot of core.context_manager
    memory,       \* Context.memory of every context object
    cfgCtx,       \* config["configurable"]["context"] of the running worker
    inWorker,     \* a worker_node is inside agent_executor.invoke
    toolCall,     \* the last tool call and what it returned
    log,          \* history of installs and saves, in order
    \* --- identity tag ---
    tagName, tagRaw, tagContent, tagApps,
    \* --- knowledge base ---
    files,        \* the file system: path -> content
    store,        \* documents held by the vector store, in insertion order
    manifest,     \* database/manifest.json as last written
    idxCall,      \* the last indexing call: paths handled and their status
    indexedAs,    \* path -> content it had when it was last indexed
    \* --- retrieval-augmented answering ---
    vector_store, \* Context.vector_store: None until ensure_vector_store
    ragCall,      \* the last rag_answer / add_to_knowledge_base call
    \* --- the chat window ---
    thread_id,    \* agent_config["configurable"]["thread_id"]
    \* --- code tools ---
    disk,         \* the files create_file writes and execute_python_file runs
    codeCall,     \* the last code-tool call and what it returned
    \* --- two sessions in one process ---
    pc,           \* session -> where its worker_node stands
    raceCall,     \* the last tool call of a session and the context it saw
    \* --- init_database.step3_vectorize_and_store ---
    documents,    \* number of documents handed to step 3
    cursor,       \* i of the batch loop
    phase,        \* "batch" | "retry" | "done"
    retryAt,      \* position inside the batch being retried
    inserted,     \* documents the vector store holds
    failedAlone,  \* documents whose individual insertion raised
    batchLog,     \* batches whose insertion raised
    \* --- temporary knowledge base of the session ---
    temp_vector_store, \* Context.temp_vector_store and its documents
    tempCall,     \* the last temporary-store call and the latest creation
    \* --- the chat window (ui/main_window.py) ---
    self_agent,   \* whether self.agent is set
    input_enabled, \* self.input
    send_enabled, \* self.send_btn
    cbox_enabled, \* self.cbox_model
    waiting,      \* the waiting message is shown and the loading timer runs
    inits,        \* AgentInitializeWorker threads that have not reported yet
    inflight,     \* thread ids of the AgentWorker turns not yet handled
    \* --- execute_in_process_code (tools/code_tools.py 44-117) ---
    sys_stdout,   \* sys.stdout: 0 the stream of the process, n the
                  \* DualWriter of call n
    sys_stderr,   \* sys.stderr, likewise
    frame,        \* thread -> the call it is in: position and locals
    execCalls     \* calls started so far

graphVars == <<messages, next, node, last, steps, status, errKind, emitted,
               emits, supOut, produced, returned, is_vision, turns>>
ctxVars   == <<_global_context, memory, cfgCtx, inWorker, toolCall, log>>
tagVars   == <<tagName, tagRaw, tagContent, tagApps>>
idxVars   == <<files, store, manifest, idxCall, indexedAs>>
ragVars   == <<vector_store, ragCall>>
uiVars    == <<thread_id>>
codeVars  == <<disk, codeCall>>
raceVars  == <<pc, raceCall>>
batchVars == <<documents, cursor, phase, retryAt, inserted, failedAlone,
               batchLog>>
extVars   == <<ragVars, uiVars, codeVars, raceVars, batchVars>>
tempVars  == <<temp_vector_store, tempCall>>
winVars   == <<self_agent, input_enabled, send_enabled, cbox_enabled, waiting,
               inits, inflight>>
outVars   == <<sys_stdout, sys_stderr, frame, execCalls>>
moreVars  == <<tempVars, winVars, outVars>>
vars      == <<graphVars, ctxVars, tagVars, idxVars, extVars, moreVars>>

(***************************************************************************)
(* Bounds of the model                                                     *)
(***************************************************************************)
\* The step bound of the graph runtime.  build_multi_agent_graph and
\* AgentWorker.run pass no recursion_limit, so the number is the runtime's
\* own; every formula below is stated for whatever value it has.
RecursionLimit == 4
MaxTurns       == 2
MaxHist        == 5
MaxImages      == 1
MaxToolRounds  == 1

Workers  == {"Developer", "Support", "Scientist"}
Members  == Workers \cup {"FINISH"}
None     == "None"

(***************************************************************************)
(* Messages.  A content is a sequence of parts: the blocks of a list       *)
(* content (type "text" / "image_url") or the pieces of a string content   *)
(* (type "chars").                                                         *)
(***************************************************************************)
Chars(t)        == [type |-> "chars", text |-> t]
TextBlock(t)    == [type |-> "text", text |-> t]
ImageBlock      == [type |-> "image_url", text |-> "data"]

HumanMessage(c)  == [type |-> "human", content |-> c]
AIMessage(c)     == [type |-> "ai", content |-> c]
SystemMessage(c) == [type |-> "system", content |-> c]
ToolMessage(c)   == [type |-> "tool", content |-> c]

IsListContent(c) == \A i \in 1..Len(c) : c[i].type \in {"text", "image_url"}

\* worker.py 47-62: the text block followed by one block per attached image
structured_content(nImages) ==
    <<TextBlock("user_input")>> \o [i \in 1..nImages |-> ImageBlock]

(***************************************************************************)
(* supervisor_node (multi_agent.py 127-170)                                *)
(***************************************************************************)
\* What the chain prompt | llm | JsonOutputParser can give for one call:
\*   raise        the model call raises
\*   unparseable  the parser raises on text that is no JSON
\*   nonobject    JSON that is no object (a list, a number, null): .get raises
\*   nokey        an object without the key "next"
\*   object       an object whose "next" is value
NextValues == Members \cup {"Researcher", "null", "42"}
SupervisorOutputs ==
    [kind : {"raise", "unparseable", "nonobject", "nokey"}, value : {None}]
    \cup [kind : {"object"}, value : NextValues]
NoOutput == [kind |-> "none", value |-> None]

\* the default of .get names a worker instead of FINISH
next_agent_DefaultWorker(out) ==
    IF out.kind \in {"raise", "unparseable", "nonobject"} THEN "FINISH"
    ELSE IF out.kind = "nokey" THEN "Developer"
    ELSE out.value

\* lines 162-168: try: result = chain.invoke(...); result.get("next", "FINISH")
\*                except Exception: "FINISH"
next_agent(out) ==
    IF out.kind \in {"raise", "unparseable", "nonobject"} THEN "FINISH"
    ELSE IF out.kind = "nokey" THEN "FINISH"
    ELSE out.value

\* lines 334-335
route_supervisor(stateNext) == stateNext

\* lines 337-346: the path map of the conditional edge
PathMap == [m \in Members |-> IF m = "FINISH" THEN "END" ELSE m]

\* a worker wired straight to the end of the graph
WorkerEdge_ToEnd(w) == "END"

\* lines 348-350: the edge out of every worker
WorkerEdge(w) == "Supervisor"

(***************************************************************************)
(* worker_node (multi_agent.py 193-310)                                    *)
(***************************************************************************)
Prompt(w)    == Chars(w)
IdentityTag(w) == Chars("**[" \o w \o "]**")
ImageNote    == Chars("[Image Attachment Ignored: Model does not support vision]")

has_image(c) == \E i \in 1..Len(c) : c[i].type = "image_url"

RECURSIVE text_only_blocks(_)
\* line 279: the blocks of type "text", in order
text_only_blocks(c) ==
    IF c = <<>> THEN <<>>
    ELSE IF Head(c).type = "text" THEN <<Head(c)>> \o text_only_blocks(Tail(c))
    ELSE text_only_blocks(Tail(c))

\* lines 279-281: the texts joined, then the note
clean_text(c) ==
    LET t == text_only_blocks(c)
    IN  [i \in 1..Len(t) |-> Chars(t[i].text)] \o <<ImageNote>>

\* every history message handed on as it is
Sanitize_PassThrough(m, vision) == m

\* lines 213-288: what goes into the worker's input for history message m
Sanitize(m, vision) ==
    IF m.type = "human" /\ IsListContent(m.content)
    THEN IF has_image(m.content)
         THEN IF ~vision THEN HumanMessage(clean_text(m.content)) ELSE m
         ELSE m
    ELSE m

\* lines 204, 213-288
messages_with_system(w, msgs, vision) ==
    <<SystemMessage(<<Prompt(w)>>)>>
        \o [i \in 1..Len(msgs) |-> Sanitize(msgs[i], vision)]

\* One round of the agent loop calling a tool: the assistant's tool-call
\* message (empty content) and the tool's answer.
ToolRound == <<AIMessage(<<>>), ToolMessage(<<Chars("tool_result")>>)>>

RECURSIVE ToolRounds(_)
ToolRounds(n) == IF n = 0 THEN <<>> ELSE ToolRound \o ToolRounds(n - 1)

\* What the agent loop appends to its input: its tool rounds, then the final
\* assistant message with content raw.
AgentLoopOutput(nTools, raw) == ToolRounds(nTools) \o <<AIMessage(raw)>>

\* line 293: result["messages"] of agent_executor.invoke
AgentExecutorInvoke(input, nTools, raw) == input \o AgentLoopOutput(nTools, raw)

\* the length of the history, the injected system prompt forgotten
input_len_History(mws) == Len(mws) - 1

\* line 298
input_len(mws) == Len(mws)

\* line 299: result["messages"][input_len:]
new_messages(result, len0) == SubSeq(result, len0 + 1, Len(result))

\* line 307: str(content).startswith(tag)
StartsWithTag(w, c) == Len(c) >= 1 /\ c[1] = IdentityTag(w)

\* the tag put in front without the prefix check
AddIdentityTag_Unchecked(w, c) == <<IdentityTag(w)>> \o c

\* lines 305-308
AddIdentityTag(w, c) ==
    IF ~StartsWithTag(w, c) THEN <<IdentityTag(w)>> \o c ELSE c

\* lines 302-308: tag the last new message when it is an assistant message
TagLast(w, new) ==
    IF new # <<>> /\ new[Len(new)].type = "ai"
    THEN [new EXCEPT ![Len(new)] =
             AIMessage(AddIdentityTag(w, new[Len(new)].content))]
    ELSE new

\* the final contents the model is let to write in Spec: plain text, or text
\* that already opens with the worker's own tag
RawFinals(w) == {<<Chars("body")>>, <<IdentityTag(w), Chars("body")>>}

\* the slot filled only while it is empty
set_active_context_KeepFirst(ctx, old) == IF old = None THEN ctx ELSE old

\* context_manager.py 9-11
set_active_context(ctx, old) == ctx

\* multi_agent.py 195-201
InstallFromConfig(ctx, old) == IF ctx = None THEN old ELSE set_active_context(ctx, old)

\* context_manager.py 13-14
get_active_context == _global_context

\* the state key written like one without a reducer: the update replaces it
add_messages_Overwrite(old, new) == new

\* AgentState.messages: Annotated[..., add_messages]; every message handed
\* over is new, so the reducer appends
add_messages(old, new) == old \o new

(***************************************************************************)
(* AgentWorker.run (ui/worker.py 36-102)                                   *)
(***************************************************************************)
\* the one context the window owns (main_window.py 56), put into every
\* run_config (worker.py 45)
SessionCtx == "ctxA"

NoResult == [kind |-> "none", content |-> <<>>]

\* lines 74-90
ExtractFinalResponse(msgs) ==
    IF Len(msgs) > 0
    THEN IF msgs[Len(msgs)].type = "human"
         THEN [kind |-> "stopped_early", content |-> <<>>]
         ELSE [kind |-> "content", content |-> msgs[Len(msgs)].content]
    ELSE [kind |-> "no_response", content |-> <<>>]

ErrKinds == {"recursion", "keyerror", "tool_calls",
             "insufficient tool messages", "other"}

\* the handler passing the failure text on as if it were the answer
ExceptResult_AsAnswer(ek) ==
    [kind |-> "content", content |-> <<Chars(ek)>>]

\* the handler answering every failure with the generic error text
ExceptResult_Generic(ek) ==
    [kind |-> "error", content |-> <<Chars("Error: "), Chars(ek)>>]

\* lines 92-102
ExceptResult(ek) ==
    IF ek \in {"insufficient tool messages", "tool_calls"}
    THEN [kind |-> "reset_instruction", content |-> <<>>]
    ELSE [kind |-> "error", content |-> <<Chars("Error: "), Chars(ek)>>]

(***************************************************************************)
(* Values of the session-context part                                      *)
(***************************************************************************)
Contexts == {"ctxA", "ctxB"}
Keys     == {"color", "size"}
Values   == {"blue", "red"}
NoVal    == "<absent>"
NoCall   == [op |-> "none", cfg |-> None, seen |-> None, key |-> None,
             value |-> None, result |-> None, keys |-> {}, changed |-> FALSE,
             at |-> 0]
EmptyMemory == [c \in Contexts |-> [k \in Keys |-> NoVal]]

NoIdxCall == [paths |-> <<>>, results |-> <<>>]

FilePaths == {"a.txt", "b.txt"}
DirPaths  == {"docs"}
AllPaths  == FilePaths \cup DirPaths
Contents  == {"x", "y"}
NoFile    == "<no file>"
IsDir     == "<dir>"
EmptyManifest == [p \in AllPaths |-> NoFile]

IdxIdle == /\ files = [p \in AllPaths |-> IF p \in DirPaths THEN IsDir ELSE NoFile]
           /\ store = <<>>
           /\ manifest = EmptyManifest
           /\ idxCall = NoIdxCall
           /\ indexedAs = [p \in AllPaths |-> NoFile]

CtxIdle == /\ _global_context = None
           /\ memory = EmptyMemory
           /\ cfgCtx = None
           /\ inWorker = FALSE
           /\ toolCall = NoCall
           /\ log = <<>>

TagIdle == /\ tagName = "Developer"
           /\ tagRaw = <<>>
           /\ tagContent = <<>>
           /\ tagApps = 0

GraphIdle == /\ messages = <<>>
             /\ next = None
             /\ node = "START"
             /\ last = "START"
             /\ steps = 0
             /\ status = "ready"
             /\ errKind = "none"
             /\ emitted = NoResult
             /\ emits = 0
             /\ supOut = NoOutput
             /\ produced = <<>>
             /\ returned = <<>>
             /\ is_vision = FALSE
             /\ turns = 0

NoRagCall  == [op |-> "none", outcome |-> "none", hits |-> 0, top |-> "none",
               rewrites |-> 0, retrievals |-> 0, completions |-> 0,
               result |-> None, stored |-> 0, scores |-> "none",
               backend |-> "none", size |-> 0]
FileNames  == {"s.py", "t.py"}
NoScript   == [returncode |-> 2, secs |-> 0, bytes |-> "no such file"]
NoRun      == [kind |-> "none", returncode |-> 0, stdout |-> "", stderr |-> ""]
NoCodeCall == [op |-> "none", filename |-> None, write |-> "none",
               run |-> NoRun, result |-> [kind |-> "none", text |-> <<>>]]
Sessions   == {"A", "B"}
NoRaceCall == [session |-> None, op |-> "none", own |-> None, seen |-> None,
               key |-> None, value |-> None, result |-> None, at |-> 0]

RagIdle   == vector_store = None /\ ragCall = NoRagCall
UiIdle    == thread_id = 0
CodeIdle  == disk = [f \in FileNames |-> NoScript] /\ codeCall = NoCodeCall
RaceIdle  == pc = [s \in Sessions |-> "idle"] /\ raceCall = NoRaceCall
BatchIdle == /\ documents = 0
             /\ cursor = 0
             /\ phase = "done"
             /\ retryAt = 0
             /\ inserted = {}
             /\ failedAlone = {}
             /\ batchLog = {}
NoTempCall == [op |-> "none", latest |-> {}, outcome |-> "none", hits |-> {}]
NoTempStore == [made |-> FALSE, docs |-> {}]
TempIdle  == temp_vector_store = NoTempStore /\ tempCall = NoTempCall
\* __init__ (54-73): no agent, and init_agent started for the first model
WinIdle   == /\ self_agent = FALSE
             /\ input_enabled = FALSE
             /\ send_enabled = FALSE
             /\ cbox_enabled = FALSE
             /\ waiting = FALSE
             /\ inits = 1
             /\ inflight = <<>>
Threads   == {"t1", "t2"}
NoFrame   == [pc |-> "idle", old_stdout |-> 0, old_stderr |-> 0, call |-> 0,
              result |-> "none"]
OutIdle   == /\ sys_stdout = 0
             /\ sys_stderr = 0
             /\ frame = [t \in Threads |-> NoFrame]
             /\ execCalls = 0
MoreIdle  == TempIdle /\ WinIdle /\ OutIdle
OwnIdle   == RagIdle /\ UiIdle /\ CodeIdle /\ RaceIdle /\ BatchIdle
ExtIdle   == OwnIdle /\ MoreIdle

(***************************************************************************)
(* Spec: one conversation thread, turn by turn                             *)
(***************************************************************************)
\* AgentWorker.run 40-72 up to agent.invoke, and the edge START -> Supervisor
\* (multi_agent.py 332)
StartTurn(nImages) ==
    /\ status \in {"ready", "emitted"}
    /\ turns < MaxTurns
    /\ Len(messages) < MaxHist
    /\ messages' = add_messages(messages,
                               <<HumanMessage(structured_content(nImages))>>)
    /\ node' = "Supervisor"
    /\ last' = "START"
    /\ steps' = 0
    /\ status' = "running"
    /\ errKind' = "none"
    /\ emitted' = NoResult
    /\ emits' = 0
    /\ supOut' = NoOutput
    /\ produced' = <<>>
    /\ returned' = <<>>
    /\ turns' = turns + 1
    /\ UNCHANGED <<next, is_vision, ctxVars, tagVars, idxVars, extVars, moreVars>>

\* supervisor_node followed by the conditional edge (multi_agent.py 127-170,
\* 334-346); a value the path map does not hold makes the lookup raise
supervisor_node(out) ==
    /\ status = "running"
    /\ node = "Supervisor"
    /\ steps < RecursionLimit
    /\ LET agent == next_agent(out)
           r         == route_supervisor(agent)
       IN  IF r \in DOMAIN PathMap
           THEN /\ next' = agent
                /\ node' = PathMap[r]
                /\ status' = IF PathMap[r] = "END" THEN "done" ELSE "running"
                /\ errKind' = errKind
           ELSE /\ next' = next
                /\ node' = node
                /\ status' = "raised"
                /\ errKind' = "keyerror"
    /\ supOut' = out
    /\ last' = "Supervisor"
    /\ steps' = steps + 1
    /\ UNCHANGED <<messages, emitted, emits, produced, returned, is_vision,
                   turns,
                   ctxVars, tagVars, idxVars, extVars, moreVars>>

\* worker_node of worker w (multi_agent.py 193-310) followed by its edge back
\* (348-350); the agent loop makes nTools tool rounds and ends with raw
worker_node(w, nTools, raw) ==
    /\ status = "running"
    /\ node = w
    /\ steps < RecursionLimit
    /\ Len(messages) + 2 * nTools + 1 <= MaxHist
    /\ LET mws == messages_with_system(w, messages, is_vision)
           result   == AgentExecutorInvoke(mws, nTools, raw)
           len0 == input_len(mws)
           new      == TagLast(w, new_messages(result, len0))
       IN  /\ messages' = add_messages(messages, new)
           /\ returned' = new
    /\ produced' = AgentLoopOutput(nTools, raw)
    /\ _global_context' = InstallFromConfig(SessionCtx, _global_context)
    /\ node' = WorkerEdge(w)
    /\ last' = w
    /\ steps' = steps + 1
    /\ UNCHANGED <<next, status, errKind, emitted, emits, supOut, is_vision,
                   turns,
                   memory, cfgCtx, inWorker, toolCall, log, tagVars, idxVars,
                   extVars, moreVars>>

\* worker_node whose agent_executor.invoke raises (the gateway refuses the
\* request, a tool-call sequence is dangling, ...)
WorkerRaise(w, ek) ==
    /\ status = "running"
    /\ node = w
    /\ steps < RecursionLimit
    /\ _global_context' = InstallFromConfig(SessionCtx, _global_context)
    /\ status' = "raised"
    /\ errKind' = ek
    /\ last' = w
    /\ steps' = steps + 1
    /\ UNCHANGED <<messages, next, node, emitted, emits, supOut, produced,
                   returned,
                   is_vision, turns, memory, cfgCtx, inWorker, toolCall, log,
                   tagVars, idxVars, extVars, moreVars>>

\* the graph runtime finds a node due after the step bound is used up and
\* raises its recursion error out of agent.invoke
RecursionError ==
    /\ status = "running"
    /\ node \in Workers \cup {"Supervisor"}
    /\ steps >= RecursionLimit
    /\ status' = "raised"
    /\ errKind' = "recursion"
    /\ UNCHANGED <<messages, next, node, last, steps, emitted, emits,
                   supOut,
                   produced, returned, is_vision, turns, ctxVars, tagVars,
                   idxVars, extVars, moreVars>>

\* the handler swallowing the exception without telling the window
RunResult_SilentOnError(st, ek, msgs) ==
    IF st = "done" THEN ExtractFinalResponse(msgs) ELSE NoResult

\* what AgentWorker.run emits for a turn that ended with status st
RunResult(st, ek, msgs) ==
    IF st = "done" THEN ExtractFinalResponse(msgs) ELSE ExceptResult(ek)

\* AgentWorker.run 74-102: the one result_ready.emit of the turn
RunFinish ==
    /\ status \in {"done", "raised"}
    /\ emitted' = RunResult(status, errKind, messages)
    /\ emits' = emits + 1
    /\ status' = "emitted"
    /\ UNCHANGED <<messages, next, node, last, steps, errKind, supOut,
                   produced, returned, is_vision, turns, ctxVars, tagVars,
                   idxVars, extVars, moreVars>>


Init ==
    /\ messages = <<>>
    /\ next = None
    /\ node = "START"
    /\ last = "START"
    /\ steps = 0
    /\ status = "ready"
    /\ errKind = "none"
    /\ emitted = NoResult
    /\ emits = 0
    /\ supOut = NoOutput
    /\ produced = <<>>
    /\ returned = <<>>
    /\ is_vision \in BOOLEAN
    /\ turns = 0
    /\ CtxIdle
    /\ TagIdle
    /\ IdxIdle
    /\ ExtIdle

Next ==
    \/ \E n \in 0..MaxImages : StartTurn(n)
    \/ \E out \in SupervisorOutputs : supervisor_node(out)
    \/ \E w \in Workers, n \in 0..MaxToolRounds :
          \E raw \in RawFinals(w) : worker_node(w, n, raw)
    \/ \E w \in Workers :
          \E ek \in {"tool_calls", "insufficient tool messages", "other"} :
             WorkerRaise(w, ek)
    \/ RecursionError
    \/ RunFinish

Spec == Init /\ [][Next]_vars

(***************************************************************************)
(* Claims about the orchestration graph (checked under Spec)               *)
(***************************************************************************)
Running == status = "running"
Executes == steps' = steps + 1

\* C1: a turn of the graph never executes more nodes than the step bound and
\* every step it takes while running uses up one unit of the bound, so it
\* cannot run indefinitely; a turn ends normally only in Terminal; a turn cut
\* at the bound ends with the runtime's recursion error, which AgentWorker.run
\* emits as an error text, never as a normal result.
C1_BoundedTurn ==
    /\ [](steps <= RecursionLimit)
    /\ [][(Running /\ status' = "running") => Executes]_vars
    /\ [](status = "done" => node = "END")
    /\ []((status \in {"raised", "emitted"} /\ node # "END")
             => errKind \in ErrKinds)
    /\ []((status \in {"raised", "emitted"} /\ node # "END"
             /\ steps = RecursionLimit /\ last = "Supervisor"
             /\ supOut.kind = "object" /\ supOut.value \in Workers)
             => errKind = "recursion")
    /\ [](errKind = "recursion" => steps = RecursionLimit)
    /\ []((status = "emitted" /\ errKind = "recursion")
             => emitted.kind = "error")

\* a turn cut at the bound has emitted its error
C1_Witness ==
    /\ status = "emitted"
    /\ errKind = "recursion"
    /\ steps = RecursionLimit
    /\ emitted.kind = "error"

MalformedKinds == {"raise", "unparseable", "nonobject", "nokey"}

\* C2: when the Supervisor's model call raises, its output is no JSON object
\* or the object has no "next" key, supervisor_node sets next to FINISH and
\* the graph is in Terminal: no worker is due.
C2_MalformedFinishes ==
    (last = "Supervisor" /\ supOut.kind \in MalformedKinds)
        => (next = "FINISH" /\ node = "END" /\ status \in {"done", "emitted"}
            /\ errKind = "none")

\* a malformed response ended a turn in which a worker had already run
C2_Witness ==
    /\ last = "Supervisor"
    /\ supOut.kind \in MalformedKinds
    /\ node = "END"
    /\ steps = 3

\* C3: a well-formed routing response whose "next" is outside the closed set
\* {Developer, Support, Scientist, FINISH} yields Terminal, never a failure of
\* the turn.
C3_InvalidNextFinishes ==
    (last = "Supervisor" /\ supOut.kind = "object"
        /\ supOut.value \notin Members)
        => (node = "END" /\ status \in {"done", "emitted"}
            /\ errKind = "none")

\* C4: the first node executed in a turn is the Supervisor, the node executed
\* after a worker is the Supervisor (it is the only node due once a worker has
\* returned), a worker is executed only right after the Supervisor, and
\* Terminal is entered only from the Supervisor, which is the only way a turn
\* ends normally.
C4_Transitions ==
    /\ [][Executes =>
            /\ (last = "START" => last' = "Supervisor")
            /\ (last \in Workers => last' = "Supervisor")
            /\ (last' \in Workers => last = "Supervisor")]_vars
    /\ []((last \in Workers /\ Running) => node = "Supervisor")
    /\ [](node = "END" => last = "Supervisor")
    /\ [](status = "done" => (node = "END" /\ last = "Supervisor"))

\* the Supervisor ran again after a worker and ended the turn
C4_Witness ==
    /\ status = "done"
    /\ node = "END"
    /\ last = "Supervisor"
    /\ steps = 3
    /\ returned # <<>>

\* C5: worker_node returns exactly the messages its agent loop produced
\* beyond its input: as many, in order, each the produced one, the last one
\* possibly with the identity tag in front; no injected or history message.
C5_ReturnsSuffix ==
    /\ Len(returned) = Len(produced)
    /\ \A i \in 1..Len(returned) :
          /\ returned[i].type = produced[i].type
          /\ \/ returned[i].content = produced[i].content
             \/ /\ i = Len(returned)
                /\ \E w \in Workers :
                      returned[i].content
                          = <<IdentityTag(w)>> \o produced[i].content

\* a worker with tool rounds ran on a history holding an image message that
\* sanitisation replaced, and an earlier worker's messages
C5_Witness ==
    /\ Len(returned) = 3
    /\ ~is_vision
    /\ last \in Workers
    /\ Len(messages) = 5
    /\ \E i \in 1..Len(messages) :
          messages[i].type = "human" /\ has_image(messages[i].content)

\* the failure texts of a dangling or incomplete tool-call sequence
Dangling == {"tool_calls", "insufficient tool messages"}

\* C26: a turn that fails on a dangling or incomplete tool-call sequence
\* ends with the reset instruction, not the generic error text, and neither
\* the failure nor its handling removes or alters a message of the stored
\* conversation.
C26_ResetInstruction ==
    [][/\ (status' = "raised" /\ errKind' \in Dangling)
             => messages' = messages
       /\ (status = "raised" /\ errKind \in Dangling /\ status' # status)
             => /\ status' = "emitted"
                /\ emitted'.kind = "reset_instruction"
                /\ messages' = messages]_vars

\* the reset instruction was given in a turn whose failing worker ran on a
\* history that holds an earlier worker's tool round
C26_Witness ==
    /\ status = "emitted"
    /\ errKind \in Dangling
    /\ emitted.kind = "reset_instruction"
    /\ \E i \in 1..Len(messages) : messages[i].type = "tool"

\* the texts of the blocks of type "text", in order
TextsOf(c) ==
    LET t == SelectSeq(c, LAMBDA b : b.type = "text")
    IN  [j \in 1..Len(t) |-> Chars(t[j].text)]

\* C24: in the input a worker is invoked with, a user message holding an
\* image block is, for a model name without vision keyword, a text-only
\* message of its text blocks followed by the image-ignored note; with a
\* vision keyword, and for every message without image, it is the message
\* of the history itself.
C24_SanitizedInput ==
    (status = "running" /\ node \in Workers)
        => LET input == messages_with_system(node, messages, is_vision)
           IN  /\ Len(input) = Len(messages) + 1
               /\ \A i \in 1..Len(messages) :
                     LET m == messages[i]
                         sent == input[i + 1]
                     IN  IF /\ m.type = "human"
                            /\ IsListContent(m.content)
                            /\ has_image(m.content)
                            /\ ~is_vision
                         THEN /\ sent.type = "human"
                              /\ sent.content
                                    = TextsOf(m.content) \o <<ImageNote>>
                              /\ \A j \in 1..Len(sent.content) :
                                    sent.content[j].type = "chars"
                         ELSE sent = m

\* a worker of a model without vision keyword is about to run on a history
\* that holds an earlier worker's answer and a user message with an image
C24_Witness ==
    /\ status = "running"
    /\ node \in Workers
    /\ \E i \in 1..Len(messages) : messages[i].type = "ai"
    /\ ~is_vision
    /\ \E i \in 1..Len(messages) :
          /\ messages[i].type = "human"
          /\ has_image(messages[i].content)
          /\ TextsOf(messages[i].content) # <<>>

(***************************************************************************)
(* SpecTag: the tagging step of worker tagName applied again and again to  *)
(* a final assistant message whose content the model wrote as tagRaw       *)
(***************************************************************************)
MaxRawLen == 3
MaxApps   == 3

TagTokens == {IdentityTag(w) : w \in Workers} \cup {Chars("body")}
RawContents == UNION {[1..n -> TagTokens] : n \in 0..MaxRawLen}

RECURSIVE LeadingTags(_, _)
\* how many copies of w's tag the content opens with
LeadingTags(w, c) ==
    IF c # <<>> /\ Head(c) = IdentityTag(w)
    THEN 1 + LeadingTags(w, Tail(c))
    ELSE 0

InitTag ==
    /\ GraphIdle
    /\ CtxIdle
    /\ IdxIdle
    /\ ExtIdle
    /\ tagName \in Workers
    /\ tagRaw \in RawContents
    /\ tagContent = tagRaw
    /\ tagApps = 0

\* multi_agent.py 305-308 on the message as it stands
ApplyTag ==
    /\ tagApps < MaxApps
    /\ tagContent' = AddIdentityTag(tagName, tagContent)
    /\ tagApps' = tagApps + 1
    /\ UNCHANGED <<tagName, tagRaw, graphVars, ctxVars, idxVars, extVars, moreVars>>

NextTag == ApplyTag

SpecTag == InitTag /\ [][NextTag]_vars

\* C6 as stated: after any number (at least one) of applications the content
\* starts with exactly one tag of the worker.
C6_ExactlyOneTag ==
    tagApps >= 1 => LeadingTags(tagName, tagContent) = 1

\* C6 amended: after any number of applications the content is what one
\* application gives: the raw content itself when it already opened with the
\* tag, the tag followed by the raw content otherwise; so it starts with the
\* tag, and with exactly one unless the raw content opened with several.
C6_TagIdempotent ==
    tagApps >= 1 =>
        /\ tagContent = IF LeadingTags(tagName, tagRaw) >= 1
                        THEN tagRaw
                        ELSE <<IdentityTag(tagName)>> \o tagRaw
        /\ LeadingTags(tagName, tagContent) >= 1
        /\ (LeadingTags(tagName, tagRaw) <= 1
               => LeadingTags(tagName, tagContent) = 1)

\* the step was applied a second time to content it had tagged itself
C6_Witness ==
    /\ tagApps >= 2
    /\ LeadingTags(tagName, tagRaw) = 0
    /\ tagRaw # <<>>
    /\ LeadingTags(tagName, tagContent) = 1

TextKinds == {"content", "stopped_early", "no_response",
              "reset_instruction", "error"}

\* C16: AgentWorker.run emits exactly one result per turn: nothing while the
\* graph runs, and once the turn has ended, normally or by an exception of
\* whatever kind, the single emission is due and carries a text (the final
\* message's content or a notice for a normal end, the reset instruction or
\* "Error: ..." for an exception); no ended turn is left without one.
C16_OneResultPerTurn ==
    /\ emits <= 1
    /\ (emits = 1) <=> (status = "emitted")
    /\ status = "emitted" => emitted.kind \in TextKinds
    /\ (status = "emitted" /\ errKind # "none")
          => emitted.kind \in {"reset_instruction", "error"}
    /\ (status = "emitted" /\ errKind = "none")
          => emitted.kind \in {"content", "stopped_early", "no_response"}
    /\ status \in {"done", "raised"} => ENABLED RunFinish
    /\ status # "emitted" => emitted = NoResult

\* a turn in which a worker raised has emitted its one error text
C16_Witness ==
    /\ status = "emitted"
    /\ errKind = "other"
    /\ last \in Workers
    /\ emits = 1
    /\ emitted.kind = "error"

\* C19: the history of the thread is append-only and ordered: whatever step
\* is taken (a turn starting, the Supervisor, a worker with its image
\* sanitisation and identity tagging, a failure, the emission), the messages
\* stored before it are a prefix of the messages stored after it.
C19_AppendOnly ==
    [][/\ Len(messages) <= Len(messages')
       /\ SubSeq(messages', 1, Len(messages)) = messages]_vars

\* second turn on a text-only model: the first message still carries its
\* image and a worker's tagged answer has been appended after it
C19_Witness ==
    /\ ~is_vision
    /\ turns = 2
    /\ Len(messages) >= 4
    /\ has_image(messages[1].content)
    /\ messages[2].type = "ai"
    /\ StartsWithTag(last, messages[Len(messages)].content)
    /\ last \in Workers

(***************************************************************************)
(* SpecCtx: worker invocations and the memory tools their agent loops call *)
(* (multi_agent.py 193-201, context_manager.py, memory_tool.py)            *)
(***************************************************************************)
MaxLog == 4

ContextNotActive == "Error: Context not active."
MemoryNotFound   == "Memory not found."

InstallEvent(c)     == [ev |-> "install", ctx |-> c, key |-> None, value |-> None]
SaveEvent(c, k, v)  == [ev |-> "save", ctx |-> c, key |-> k, value |-> v]

\* the store of the key keeps a value already there
MemoryStore_KeepFirst(mem, k, v) ==
    IF mem[k] = NoVal THEN [mem EXCEPT ![k] = v] ELSE mem

\* memory_tool.py 10: context.memory[key] = value
MemoryStore(mem, k, v) == [mem EXCEPT ![k] = v]

\* memory_tool.py 18: context.memory.get(key, "Memory not found.")
MemoryGet(mem, k) == IF mem[k] = NoVal THEN MemoryNotFound ELSE mem[k]

\* memory_tool.py 25: the keys held
MemoryKeys(mem) == {k \in Keys : mem[k] # NoVal}

\* worker_node 193-201 and the entry into agent_executor.invoke (293), for an
\* invocation whose config holds context cfg (None: no context in it)
WorkerInvoke(cfg) ==
    /\ ~inWorker
    /\ cfg # None => Len(log) < MaxLog
    /\ cfgCtx' = cfg
    /\ _global_context' = InstallFromConfig(cfg, _global_context)
    /\ log' = IF cfg # None THEN Append(log, InstallEvent(cfg)) ELSE log
    /\ inWorker' = TRUE
    /\ UNCHANGED <<memory, toolCall, graphVars, tagVars, idxVars, extVars, moreVars>>

\* agent_executor.invoke returns and worker_node with it (293-310)
WorkerReturn ==
    /\ inWorker
    /\ inWorker' = FALSE
    /\ UNCHANGED <<_global_context, memory, cfgCtx, toolCall, log,
                   graphVars, tagVars, idxVars, extVars, moreVars>>

\* memory_tool.py 5-11
save_memory(k, v) ==
    /\ inWorker
    /\ LET context == get_active_context
       IN  IF context = None
           THEN /\ toolCall' = [op |-> "save_memory", cfg |-> cfgCtx,
                                seen |-> context, key |-> k, value |-> v,
                                result |-> ContextNotActive, keys |-> {},
                                changed |-> FALSE, at |-> Len(log)]
                /\ UNCHANGED <<memory, log>>
           ELSE /\ Len(log) < MaxLog
                /\ memory' = [memory EXCEPT
                                 ![context] = MemoryStore(memory[context], k, v)]
                /\ log' = Append(log, SaveEvent(context, k, v))
                /\ toolCall' = [op |-> "save_memory", cfg |-> cfgCtx,
                                seen |-> context, key |-> k, value |-> v,
                                result |-> "Memory saved", keys |-> {k},
                                changed |-> memory' # memory, at |-> Len(log)]
    /\ UNCHANGED <<_global_context, cfgCtx, inWorker, graphVars, tagVars,
                   idxVars, extVars, moreVars>>

\* memory_tool.py 13-18
read_memory(k) ==
    /\ inWorker
    /\ LET context == get_active_context
       IN  toolCall' = [op |-> "read_memory", cfg |-> cfgCtx, seen |-> context,
                        key |-> k, value |-> None,
                        result |-> IF context = None THEN ContextNotActive
                                   ELSE MemoryGet(memory[context], k),
                        keys |-> {}, changed |-> FALSE, at |-> Len(log)]
    /\ UNCHANGED <<_global_context, memory, cfgCtx, inWorker, log,
                   graphVars, tagVars, idxVars, extVars, moreVars>>

\* memory_tool.py 20-25
list_memories ==
    /\ inWorker
    /\ LET context == get_active_context
       IN  toolCall' = [op |-> "list_memories", cfg |-> cfgCtx,
                        seen |-> context, key |-> None, value |-> None,
                        result |-> IF context = None THEN ContextNotActive
                                   ELSE "keys",
                        keys |-> IF context = None THEN {}
                                 ELSE MemoryKeys(memory[context]),
                        changed |-> FALSE, at |-> Len(log)]
    /\ UNCHANGED <<_global_context, memory, cfgCtx, inWorker, log,
                   graphVars, tagVars, idxVars, extVars, moreVars>>

InitCtx == GraphIdle /\ CtxIdle /\ TagIdle /\ IdxIdle /\ ExtIdle

NextCtx ==
    \/ \E cfg \in Contexts \cup {None} : WorkerInvoke(cfg)
    \/ WorkerReturn
    \/ \E k \in Keys, v \in Values : save_memory(k, v)
    \/ \E k \in Keys : read_memory(k)
    \/ list_memories

SpecCtx == InitCtx /\ [][NextCtx]_vars

RECURSIVE LastInstalled(_)
\* the context of the latest install event of a history, None without one
LastInstalled(h) ==
    IF h = <<>> THEN None
    ELSE IF h[Len(h)].ev = "install" THEN h[Len(h)].ctx
    ELSE LastInstalled(SubSeq(h, 1, Len(h) - 1))

RECURSIVE LatestSaved(_, _, _)
\* the value of the latest save of key k into context c, NoVal without one
LatestSaved(h, c, k) ==
    IF h = <<>> THEN NoVal
    ELSE LET e == h[Len(h)]
         IN  IF e.ev = "save" /\ e.ctx = c /\ e.key = k THEN e.value
             ELSE LatestSaved(SubSeq(h, 1, Len(h) - 1), c, k)

Before(call) == SubSeq(log, 1, call.at)

\* C7: a tool called in a worker whose config holds no context returns the
\* "context not active" sentinel and neither reads nor changes a context,
\* whatever was installed before.
C7_NoContextSentinel ==
    (toolCall.op # "none" /\ toolCall.cfg = None)
        => /\ toolCall.result = ContextNotActive
           /\ toolCall.seen = None
           /\ ~toolCall.changed

\* C8: the slot holds the context installed last, or the empty value when
\* none was installed, and that is what a tool's get_active_context got.
C8_LastWriteWins ==
    /\ _global_context = LastInstalled(log)
    /\ toolCall.op # "none" => toolCall.seen = LastInstalled(Before(toolCall))

\* a second context was installed over a first and a tool fetched it
C8_Witness ==
    /\ \E i, j \in 1..Len(log) :
          /\ i < j
          /\ log[i].ev = "install" /\ log[j].ev = "install"
          /\ log[i].ctx # log[j].ctx
          /\ _global_context = log[j].ctx
    /\ toolCall.op # "none"
    /\ toolCall.seen = _global_context
    /\ toolCall.at = Len(log)

\* C9: with an active context, read_memory(k) returns the value of the latest
\* save_memory(k, v) into that context, also after later worker invocations,
\* and the not-found sentinel when k was never saved into it.
C9_ReadLatestSave ==
    (toolCall.op = "read_memory" /\ toolCall.seen # None)
        => LET v == LatestSaved(Before(toolCall), toolCall.seen, toolCall.key)
           IN  toolCall.result = IF v = NoVal THEN MemoryNotFound ELSE v

\* a key saved twice with different values was read in a later invocation
C9_Witness ==
    /\ toolCall.op = "read_memory"
    /\ toolCall.result \in Values
    /\ toolCall.at = Len(log)
    /\ \E i, j, n \in 1..Len(log) :
          /\ i < j /\ j < n
          /\ log[i].ev = "save" /\ log[j].ev = "save" /\ log[n].ev = "install"
          /\ log[i].key = toolCall.key /\ log[j].key = toolCall.key
          /\ log[i].ctx = toolCall.seen /\ log[j].ctx = toolCall.seen
          /\ log[i].value # log[j].value
          /\ log[j].value = toolCall.result

(***************************************************************************)
(* SpecIdx: update_knowledge_base_from_files (rag_tool.py 137-187) run by  *)
(* a session whose context is installed, against files that get written   *)
(***************************************************************************)
MaxDocs    == 2
MaxEntries == 2

Entries == {<<p>> : p \in AllPaths} \cup {<<>>}

RECURSIVE PathLists(_)
\* up to n entries, each a path or empty, with a semicolon between neighbours
PathLists(n) ==
    IF n = 1 THEN Entries
    ELSE PathLists(n - 1)
         \cup {l \o <<";">> \o e : l \in PathLists(n - 1), e \in Entries}

\* two files with a comma between them
CommaStrings == {<<p, ",", q>> : p, q \in FilePaths}

\* the strings file_paths is drawn from
PathStrings == PathLists(MaxEntries) \cup CommaStrings

\* the paths whose insertion the vector store may refuse in a call
FailingSets == {{}, {"b.txt"}}

RECURSIVE SplitOn(_, _, _)
\* str.split(sep) over the tokens of a string: cur is the entry being read
SplitOn(sep, tokens, cur) ==
    IF tokens = <<>> THEN <<cur>>
    ELSE IF Head(tokens) = sep
         THEN <<cur>> \o SplitOn(sep, Tail(tokens), <<>>)
         ELSE SplitOn(sep, Tail(tokens), Append(cur, Head(tokens)))

\* line 177: file_paths.split(';')
SplitPaths(filePaths) == SplitOn(";", filePaths, <<>>)

\* line 149: os.path.exists(abspath) of the path an entry spells
PathOf(entry) == IF Len(entry) = 1 THEN entry[1] ELSE "<no such path>"
Exists(entry, fs) == PathOf(entry) \in AllPaths /\ fs[PathOf(entry)] # NoFile

Document(path, content) == [source_path |-> path, content |-> content]

\* the documents the store holds for a path
DocsFor(st, path) == {i \in 1..Len(st) : st[i].source_path = path}

\* lines 147-166, _process_file on one entry: the status it returns and the
\* store it leaves; failing is the set of paths whose add_documents raises
_process_file(entry, st, fs, failing) ==
    IF ~Exists(entry, fs)
    THEN [status |-> "Skip (not found)", store |-> st, indexed |-> FALSE]
    ELSE IF fs[PathOf(entry)] = IsDir
    THEN [status |-> "Error indexing", store |-> st, indexed |-> FALSE]
    ELSE IF PathOf(entry) \in failing
    THEN [status |-> "Error indexing", store |-> st, indexed |-> FALSE]
    ELSE [status |-> "Indexed",
          store |-> Append(st, Document(PathOf(entry), fs[PathOf(entry)])),
          indexed |-> TRUE]

\* what the loop records for an entry that _process_file answered with r
EntryRecord(p, r, st, ia, fs, failing) ==
    LET path == PathOf(p)
    IN  [entry |-> p,
         status |-> r.status,
         unmodified |-> /\ path \in FilePaths
                        /\ fs[path] # NoFile
                        /\ ia[path] = fs[path],
         loadable |-> /\ Exists(p, fs)
                      /\ fs[path] # IsDir
                      /\ path \notin failing,
         before |-> Cardinality(DocsFor(st, path)),
         after  |-> Cardinality(DocsFor(r.store, path))]

RECURSIVE ProcessEntries_AbortOnError(_, _, _, _, _, _)
\* the loop giving up at the first entry that is not indexed
ProcessEntries_AbortOnError(entries, st, ia, fs, failing, acc) ==
    IF entries = <<>> THEN [store |-> st, indexedAs |-> ia, results |-> acc]
    ELSE LET p == Head(entries)
         IN  IF p = <<>>
             THEN ProcessEntries_AbortOnError(Tail(entries), st, ia, fs,
                                              failing, acc)
             ELSE LET r == _process_file(p, st, fs, failing)
                      rec == EntryRecord(p, r, st, ia, fs, failing)
                  IN  IF ~r.indexed
                      THEN [store |-> st, indexedAs |-> ia,
                            results |-> Append(acc, rec)]
                      ELSE ProcessEntries_AbortOnError(Tail(entries), r.store,
                               [ia EXCEPT ![PathOf(p)] = fs[PathOf(p)]],
                               fs, failing, Append(acc, rec))

RECURSIVE ProcessEntries(_, _, _, _, _, _)
\* lines 176-180: the loop over the entries, the empty ones left out; acc
\* gathers one record per processed entry
ProcessEntries(entries, st, ia, fs, failing, acc) ==
    IF entries = <<>> THEN [store |-> st, indexedAs |-> ia, results |-> acc]
    ELSE LET p == Head(entries)
         IN  IF p = <<>>
             THEN ProcessEntries(Tail(entries), st, ia, fs, failing, acc)
             ELSE LET r == _process_file(p, st, fs, failing)
                      path == PathOf(p)
                      rec == EntryRecord(p, r, st, ia, fs, failing)
                  IN  ProcessEntries(Tail(entries), r.store,
                          IF r.indexed THEN [ia EXCEPT ![path] = fs[path]]
                          ELSE ia,
                          fs, failing, Append(acc, rec))

\* the tool as a whole (lines 137-187) for the string filePaths
update_knowledge_base_from_files(filePaths, failing) ==
    /\ get_active_context # None
    /\ LET out == ProcessEntries(SplitPaths(filePaths), store, indexedAs,
                                 files, failing, <<>>)
       IN  /\ Len(out.store) <= MaxDocs
           /\ store' = out.store
           /\ indexedAs' = out.indexedAs
           /\ idxCall' = [paths |-> filePaths, results |-> out.results]
    /\ UNCHANGED <<files, manifest, graphVars, ctxVars, tagVars, extVars, moreVars>>

\* the tool called with no context installed (lines 140-141)
UpdateWithoutContext(filePaths) ==
    /\ get_active_context = None
    /\ idxCall' = [paths |-> filePaths,
                   results |-> <<[entry |-> filePaths,
                                  status |-> ContextNotActive,
                                  unmodified |-> FALSE, loadable |-> FALSE,
                                  before |-> 0, after |-> 0]>>]
    /\ UNCHANGED <<files, store, manifest, indexedAs, graphVars, ctxVars,
                   tagVars, extVars, moreVars>>

\* the user writes a file (creates it or changes its content)
WriteFile(p, c) ==
    /\ files[p] # c
    /\ files' = [files EXCEPT ![p] = c]
    /\ UNCHANGED <<store, manifest, idxCall, indexedAs, graphVars, ctxVars,
                   tagVars, extVars, moreVars>>

\* a worker of the session installs its context (multi_agent.py 195-201)
InstallSession ==
    /\ _global_context = None
    /\ _global_context' = InstallFromConfig(SessionCtx, _global_context)
    /\ UNCHANGED <<memory, cfgCtx, inWorker, toolCall, log, graphVars,
                   tagVars, idxVars, extVars, moreVars>>

InitIdx == GraphIdle /\ CtxIdle /\ TagIdle /\ IdxIdle /\ ExtIdle

NextIdx ==
    \/ InstallSession
    \/ \E fp \in PathStrings, failing \in FailingSets :
          update_knowledge_base_from_files(fp, failing)
    \/ \E fp \in PathStrings : UpdateWithoutContext(fp)
    \/ \E p \in FilePaths, c \in Contents : WriteFile(p, c)

SpecIdx == InitIdx /\ [][NextIdx]_vars

\* SpecPaths: the same tool called over and over on files that stay as
\* they are: a.txt holds text, b.txt holds text or is missing
InitPaths ==
    /\ GraphIdle /\ CtxIdle /\ TagIdle /\ ExtIdle
    /\ files \in {f \in [AllPaths -> {"x", NoFile, IsDir}] :
                     /\ f["a.txt"] = "x"
                     /\ f["b.txt"] # IsDir
                     /\ \A d \in DirPaths : f[d] = IsDir}
    /\ store = <<>>
    /\ manifest = EmptyManifest
    /\ idxCall = NoIdxCall
    /\ indexedAs = [p \in AllPaths |-> NoFile]

NextPaths ==
    \/ InstallSession
    \/ \E fp \in PathStrings, failing \in FailingSets :
          update_knowledge_base_from_files(fp, failing)

SpecPaths == InitPaths /\ [][NextPaths]_vars

\* C10: when a file is indexed again unmodified, the run reports
\* "up-to-date" for it and the documents stored for its path are unchanged.
C10_UnmodifiedUpToDate ==
    \A i \in 1..Len(idxCall.results) :
        idxCall.results[i].unmodified
            => /\ idxCall.results[i].status = "up-to-date"
               /\ idxCall.results[i].after = idxCall.results[i].before

\* C11: once a path has been indexed, every document the store holds for it
\* carries the content the path had when it was indexed last: re-indexing a
\* file whose content changed leaves no document of the old content behind.
C11_NoStaleChunks ==
    \A p \in FilePaths :
        indexedAs[p] # NoFile
            => \A i \in DocsFor(store, p) : store[i].content = indexedAs[p]

RECURSIVE NonEmpty(_)
\* the entries of a split that are not empty (line 179)
NonEmpty(entries) ==
    IF entries = <<>> THEN <<>>
    ELSE IF Head(entries) = <<>> THEN NonEmpty(Tail(entries))
    ELSE <<Head(entries)>> \o NonEmpty(Tail(entries))

WithContext(call) ==
    call.results # <<>> /\ call.results[1].status # ContextNotActive

C21_ManifestUpdated ==
    \A p \in FilePaths :
        indexedAs[p] # NoFile => manifest[p] = indexedAs[p]

RECURSIVE SplitOnAny(_, _, _)
\* a string cut at every separator of seps
SplitOnAny(seps, tokens, cur) ==
    IF tokens = <<>> THEN <<cur>>
    ELSE IF Head(tokens) \in seps
         THEN <<cur>> \o SplitOnAny(seps, Tail(tokens), <<>>)
         ELSE SplitOnAny(seps, Tail(tokens), Append(cur, Head(tokens)))

\* C25: a call made with a context installed treats every entry between
\* commas or semicolons as a path of its own, one status each in their order,
\* and walks an entry that is a directory instead of failing on it.
C25_CommasAndDirectories ==
    WithContext(idxCall) =>
        LET given == NonEmpty(SplitOnAny({";", ","}, idxCall.paths, <<>>))
        IN  /\ Len(idxCall.results) = Len(given)
            /\ \A i \in 1..Len(given) :
                  /\ idxCall.results[i].entry = given[i]
                  /\ PathOf(given[i]) \in DirPaths
                        => idxCall.results[i].status = "Indexed"

(***************************************************************************)
(* SpecRag: rag_answer and add_to_knowledge_base (rag_tool.py 121-135,     *)
(* 189-211) on the vector store of the session's context                   *)
(***************************************************************************)
\* similarity_search(query, k=4)
TopK == 4

Sources == {"user_input", "manual"}
Handle  == "<vector store>"
Raised  == "<raised>"

GuidanceText == "No relevant documents found. Please supply documentation first."
RagErrorText == "RAG error"
AnswerText   == "<resp.content>"
AddedText    == "Added content to knowledge base"

Min(a, b) == IF a <= b THEN a ELSE b

\* lines 82-97: the handle the context ends with, or the set-up raising
\* (building the embeddings or opening the persistent collection fails)
ensure_vector_store(handle, setUp) ==
    IF handle # None THEN [raised |-> FALSE, handle |-> handle]
    ELSE IF setUp = "ok" THEN [raised |-> FALSE, handle |-> Handle]
    ELSE [raised |-> TRUE, handle |-> None]

\* lines 196-211: the try block of rag_answer on a store holding n documents
\* whose best match for the query has relevance top
RagTry(n, top, search, llm) ==
    LET hits == Min(TopK, n)
        base == [NoRagCall EXCEPT !.op = "rag_answer", !.retrievals = 1,
                                  !.size = n]
    IN  IF search = "raises"
        THEN [base EXCEPT !.outcome = "retrieval_failed", !.result = RagErrorText]
        ELSE IF hits = 0
        THEN [base EXCEPT !.outcome = "empty", !.result = GuidanceText]
        ELSE IF llm = "raises"
        THEN [base EXCEPT !.outcome = "model_failed", !.hits = hits,
                          !.top = top, !.completions = 1,
                          !.result = RagErrorText]
        ELSE [base EXCEPT !.outcome = "answered", !.hits = hits, !.top = top,
                          !.completions = 1, !.result = AnswerText]

\* rag_answer (189-211)
rag_answer(setUp, search, top, llm) ==
    /\ LET context == get_active_context
           vs == ensure_vector_store(vector_store, setUp)
       IN  IF context = None
           THEN /\ ragCall' = [NoRagCall EXCEPT !.op = "rag_answer",
                                  !.outcome = "no_context",
                                  !.result = ContextNotActive]
                /\ UNCHANGED vector_store
           ELSE IF vs.raised
           THEN /\ ragCall' = [NoRagCall EXCEPT !.op = "rag_answer",
                                  !.outcome = "setup_failed",
                                  !.result = Raised]
                /\ UNCHANGED vector_store
           ELSE /\ ragCall' = RagTry(Len(store), top, search, llm)
                /\ vector_store' = vs.handle
    /\ UNCHANGED <<graphVars, ctxVars, tagVars, idxVars, uiVars, codeVars,
                   raceVars, batchVars, moreVars>>

\* lines 127-135: the documents add_documents left in the store; first is
\* what the try block did, second what the call in the except branch did
AddDocs(st, doc, first, second) ==
    LET afterTry == IF first = "add_raises" THEN st ELSE Append(st, doc)
    IN  IF first = "ok" THEN [raised |-> FALSE, store |-> afterTry]
        ELSE IF second = "raises" THEN [raised |-> TRUE, store |-> afterTry]
        ELSE [raised |-> FALSE, store |-> Append(afterTry, doc)]

\* add_to_knowledge_base (121-135)
add_to_knowledge_base(content, source, setUp, first, second) ==
    /\ LET context == get_active_context
           vs == ensure_vector_store(vector_store, setUp)
           r  == AddDocs(store, Document(source, content), first, second)
           call == [NoRagCall EXCEPT !.op = "add_to_knowledge_base"]
       IN  IF context = None
           THEN /\ ragCall' = [call EXCEPT !.outcome = "no_context",
                                           !.result = ContextNotActive]
                /\ UNCHANGED <<vector_store, store>>
           ELSE IF vs.raised
           THEN /\ ragCall' = [call EXCEPT !.outcome = "setup_failed",
                                           !.result = Raised]
                /\ UNCHANGED <<vector_store, store>>
           ELSE /\ Len(r.store) <= MaxDocs
                /\ vector_store' = vs.handle
                /\ store' = r.store
                /\ ragCall' = [call EXCEPT
                                  !.outcome = IF r.raised THEN "add_failed"
                                              ELSE "added",
                                  !.result = IF r.raised THEN Raised
                                             ELSE AddedText,
                                  !.stored = Len(r.store) - Len(store)]
    /\ UNCHANGED <<files, manifest, idxCall, indexedAs, graphVars, ctxVars,
                   tagVars, uiVars, codeVars, raceVars, batchVars, moreVars>>

\* chunks the collection on disk can hold from earlier runs, beyond the
\* documents this session added
MaxPersisted == 3

NoInfoText   == "No relevant information found in knowledge base."
ScoredText   == "<Score, Source, Content of each hit>"
UnscoredText == "<Source, Content of each hit>"

\* what the store's backend can do for one query: score its hits, retrieve
\* without scores only, or nothing at all
Backends == {"scores", "no_scores", "down"}

\* lines 106-119: the try block of search_knowledge_base and its except
\* branch, on a collection that holds n chunks
SearchTry_NoFallback(n, backend) ==
    LET hits == Min(TopK, n)
        base == [NoRagCall EXCEPT !.op = "search_knowledge_base",
                                  !.backend = backend, !.size = n,
                                  !.retrievals = 1]
    IN  IF backend # "scores"
        THEN [base EXCEPT !.outcome = "raised", !.result = Raised]
        ELSE IF hits = 0
        THEN [base EXCEPT !.outcome = "empty", !.result = NoInfoText]
        ELSE [base EXCEPT !.outcome = "found", !.hits = hits,
                          !.scores = "relevance", !.result = ScoredText]

SearchTry(n, backend) ==
    LET hits == Min(TopK, n)
        base == [NoRagCall EXCEPT !.op = "search_knowledge_base",
                                  !.backend = backend, !.size = n]
    IN  IF backend = "scores"
        THEN IF hits = 0
             THEN [base EXCEPT !.retrievals = 1, !.outcome = "empty",
                               !.result = NoInfoText]
             ELSE [base EXCEPT !.retrievals = 1, !.outcome = "found",
                               !.hits = hits, !.scores = "relevance",
                               !.result = ScoredText]
        ELSE IF backend = "down"
        THEN [base EXCEPT !.retrievals = 2, !.outcome = "raised",
                          !.result = Raised]
        ELSE IF hits = 0
        THEN [base EXCEPT !.retrievals = 2, !.outcome = "empty",
                          !.result = NoInfoText]
        ELSE [base EXCEPT !.retrievals = 2, !.outcome = "found",
                          !.hits = hits, !.result = UnscoredText]

\* search_knowledge_base (99-119)
search_knowledge_base(setUp, backend, persisted) ==
    /\ LET context == get_active_context
           vs == ensure_vector_store(vector_store, setUp)
           call == [NoRagCall EXCEPT !.op = "search_knowledge_base"]
       IN  IF context = None
           THEN /\ ragCall' = [call EXCEPT !.outcome = "no_context",
                                           !.result = ContextNotActive]
                /\ UNCHANGED vector_store
           ELSE IF vs.raised
           THEN /\ ragCall' = [call EXCEPT !.outcome = "setup_failed",
                                           !.result = Raised]
                /\ UNCHANGED vector_store
           ELSE /\ ragCall' = SearchTry(Len(store) + persisted, backend)
                /\ vector_store' = vs.handle
    /\ UNCHANGED <<graphVars, ctxVars, tagVars, idxVars, uiVars, codeVars,
                   raceVars, batchVars, moreVars>>

InitRag == GraphIdle /\ CtxIdle /\ TagIdle /\ IdxIdle /\ ExtIdle

NextRag ==
    \/ InstallSession
    \/ \E c \in Contents, src \in Sources, setUp \in {"ok", "raises"},
          first \in {"ok", "add_raises", "persist_raises"},
          second \in {"ok", "raises"} :
          add_to_knowledge_base(c, src, setUp, first, second)
    \/ \E setUp \in {"ok", "raises"}, search \in {"ok", "raises"},
          top \in {"below", "at_or_above"}, llm \in {"ok", "raises"} :
          rag_answer(setUp, search, top, llm)
    \/ \E setUp \in {"ok", "raises"}, backend \in Backends,
          persisted \in 0..MaxPersisted :
          search_knowledge_base(setUp, backend, persisted)

SpecRag == InitRag /\ [][NextRag]_vars

\* C13: in a call of rag_answer whose first retrieval is not empty, a best
\* match below the threshold is followed by exactly one query rewrite and one
\* more retrieval before the completion, a best match at or above it by no
\* rewrite, and there is never a second rewrite.
C13_OneRewriteBelowThreshold ==
    (ragCall.op = "rag_answer" /\ ragCall.hits > 0)
        => /\ ragCall.top = "below"
                => ragCall.rewrites = 1 /\ ragCall.retrievals = 2
           /\ ragCall.top = "at_or_above" => ragCall.rewrites = 0
           /\ ragCall.rewrites <= 1

\* C14: rag_answer never raises: with a context installed it returns a text,
\* which on an empty knowledge base is the guidance message, given without a
\* completion call; set-up, retrieval and model failures come back as text.
C14_NeverRaises ==
    (ragCall.op = "rag_answer" /\ ragCall.outcome # "no_context")
        => /\ ragCall.result # Raised
           /\ ragCall.outcome = "empty"
                 => ragCall.result = GuidanceText /\ ragCall.completions = 0
           /\ ragCall.outcome \in {"retrieval_failed", "model_failed"}
                 => ragCall.result = RagErrorText

C30_AddedExactlyOnce ==
    (ragCall.op = "add_to_knowledge_base" /\ ragCall.outcome = "added")
        => ragCall.stored = 1

(***************************************************************************)
(* SpecUi: the chat window's session (ui/main_window.py): turns sent with  *)
(* the window's context, and the Reset button                              *)
(***************************************************************************)
ResetEvent == [ev |-> "reset", ctx |-> None, key |-> None, value |-> None]

\* on_send_clicked (666-695) starting AgentWorker with self.agent_context,
\* up to the worker_node that installs it (worker.py 45, multi_agent.py 201)
on_send_clicked == WorkerInvoke(SessionCtx)

\* on_reset_clicked (210-224): a fresh thread identifier; self.agent_context
\* is left as it is
on_reset_clicked ==
    /\ Len(log) < MaxLog
    /\ thread_id' = thread_id + 1
    /\ log' = Append(log, ResetEvent)
    /\ UNCHANGED <<_global_context, memory, cfgCtx, inWorker, toolCall,
                   graphVars, tagVars, idxVars, ragVars, codeVars, raceVars,
                   batchVars, moreVars>>

InitUi == GraphIdle /\ CtxIdle /\ TagIdle /\ IdxIdle /\ ExtIdle

NextUi ==
    \/ on_send_clicked
    \/ WorkerReturn
    \/ on_reset_clicked
    \/ \E k \in Keys, v \in Values : save_memory(k, v)
    \/ \E k \in Keys : read_memory(k)
    \/ list_memories

SpecUi == InitUi /\ [][NextUi]_vars

RECURSIVE LastReset(_)
\* the position of the latest reset in a history, 0 without one
LastReset(h) ==
    IF h = <<>> THEN 0
    ELSE IF h[Len(h)].ev = "reset" THEN Len(h)
    ELSE LastReset(SubSeq(h, 1, Len(h) - 1))

\* what happened between the latest reset before a call and the call
SinceReset(call) == SubSeq(log, LastReset(Before(call)) + 1, call.at)

\* C15: a tool call made after a session reset sees nothing written before
\* the reset: read_memory returns what was saved under the key since the
\* latest reset, "Memory not found." when nothing was, and list_memories
\* lists only the keys saved since then.
C15_ResetReplacesContext ==
    /\ (toolCall.op = "read_memory" /\ toolCall.seen # None)
          => LET v == LatestSaved(SinceReset(toolCall), toolCall.seen,
                                  toolCall.key)
             IN  toolCall.result = IF v = NoVal THEN MemoryNotFound ELSE v
    /\ (toolCall.op = "list_memories" /\ toolCall.seen # None)
          => toolCall.keys
                = {k \in Keys :
                      LatestSaved(SinceReset(toolCall), toolCall.seen, k)
                         # NoVal}

(***************************************************************************)
(* SpecCode: create_file and execute_python_file (tools/code_tools.py 6-42)*)
(***************************************************************************)
\* subprocess.run(..., timeout=120)
timeout == 120

\* what a script does when it is run: the code it exits with, the seconds
\* it takes, and whether the bytes it prints decode as text
Scripts == [returncode : {0, 1}, secs : {1, timeout + 1},
            bytes : {"text", "binary"}]

\* lines 29-34: subprocess.run([sys.executable, filename], capture_output,
\* text, timeout): a CompletedProcess, or the exception it raises
SubprocessRun(script, start) ==
    IF start = "raises"
    THEN [NoRun EXCEPT !.kind = "OSError"]
    ELSE IF script = NoScript
    THEN [kind |-> "completed", returncode |-> script.returncode,
          stdout |-> "", stderr |-> "can't open file"]
    ELSE IF script.secs > timeout
    THEN [NoRun EXCEPT !.kind = "TimeoutExpired"]
    ELSE IF script.bytes = "binary"
    THEN [NoRun EXCEPT !.kind = "UnicodeDecodeError"]
    ELSE [kind |-> "completed", returncode |-> script.returncode,
          stdout |-> IF script.returncode = 0 THEN "printed" ELSE "",
          stderr |-> IF script.returncode = 0 THEN "" ELSE "Traceback"]

\* the exception of subprocess.run leaving the tool
ExecResult_Propagate(run) ==
    IF run.kind # "completed" THEN [kind |-> "raised", text |-> <<>>]
    ELSE [kind |-> "exit", text |-> <<"Exit Code: ", run.returncode>>]

\* lines 35-42: the text execute_python_file returns
ExecResult(run) ==
    IF run.kind # "completed"
    THEN [kind |-> "exec_error",
          text |-> <<"Error executing file: ", run.kind>>]
    ELSE [kind |-> "exit",
          text |-> <<"Exit Code: ", run.returncode>>
                   \o (IF run.stdout # "" THEN <<"STDOUT:", run.stdout>>
                       ELSE <<>>)
                   \o (IF run.stderr # "" THEN <<"STDERR:", run.stderr>>
                       ELSE <<>>)]

\* create_file (6-21); write tells whether makedirs/open/write go through
create_file(filename, content, write) ==
    /\ disk' = IF write = "ok" THEN [disk EXCEPT ![filename] = content]
               ELSE disk
    /\ codeCall' = [NoCodeCall EXCEPT
                       !.op = "create_file", !.filename = filename,
                       !.write = write,
                       !.result = IF write = "ok"
                                  THEN [kind |-> "created",
                                        text |-> <<"File created successfully.">>]
                                  ELSE [kind |-> "create_error",
                                        text |-> <<"Error creating file: ",
                                                   "OSError">>]]
    /\ UNCHANGED <<graphVars, ctxVars, tagVars, idxVars, ragVars, uiVars,
                   raceVars, batchVars, moreVars>>

\* execute_python_file (23-42)
execute_python_file(filename, start) ==
    /\ LET run == SubprocessRun(disk[filename], start)
       IN  codeCall' = [NoCodeCall EXCEPT
                           !.op = "execute_python_file",
                           !.filename = filename, !.run = run,
                           !.result = ExecResult(run)]
    /\ UNCHANGED <<disk, graphVars, ctxVars, tagVars, idxVars, ragVars,
                   uiVars, raceVars, batchVars, moreVars>>

InitCode == GraphIdle /\ CtxIdle /\ TagIdle /\ IdxIdle /\ ExtIdle

NextCode ==
    \/ \E f \in FileNames, c \in Scripts, w \in {"ok", "raises"} :
          create_file(f, c, w)
    \/ \E f \in FileNames, st \in {"ok", "raises"} :
          execute_python_file(f, st)

SpecCode == InitCode /\ [][NextCode]_vars

\* C17: create_file and execute_python_file always return a text: a file that
\* cannot be written gives "Error creating file ..."; a script that cannot be
\* started, runs past the 120 s timeout or prints undecodable bytes gives
\* "Error executing file ..."; a run that completes gives its exit code with
\* the captured STDOUT and STDERR, which for exit code 0 is "Exit Code: 0"
\* followed by the script's output.
C17_CodeToolsReturnText ==
    /\ codeCall.result.kind # "raised"
    /\ codeCall.op = "create_file"
          => /\ codeCall.write = "ok" => codeCall.result.kind = "created"
             /\ codeCall.write = "raises"
                   => codeCall.result.kind = "create_error"
    /\ codeCall.op = "execute_python_file"
          => /\ codeCall.run.kind \in {"OSError", "TimeoutExpired",
                                       "UnicodeDecodeError"}
                   => /\ codeCall.result.kind = "exec_error"
                      /\ codeCall.result.text[2] = codeCall.run.kind
             /\ codeCall.run.kind = "completed"
                   => /\ codeCall.result.kind = "exit"
                      /\ SubSeq(codeCall.result.text, 1, 2)
                            = <<"Exit Code: ", codeCall.run.returncode>>
             /\ (codeCall.run.kind = "completed"
                    /\ codeCall.run.returncode = 0)
                   => codeCall.result.text
                         = <<"Exit Code: ", 0, "STDOUT:", "printed">>
             /\ (codeCall.run.kind = "completed"
                    /\ codeCall.run.returncode # 0)
                   => codeCall.result.text
                         = <<"Exit Code: ", codeCall.run.returncode,
                             "STDERR:", codeCall.run.stderr>>

\* a script written by create_file ran past the timeout and the tool
\* returned its error text
C17_Witness ==
    /\ codeCall.op = "execute_python_file"
    /\ disk[codeCall.filename] # NoScript
    /\ disk[codeCall.filename].secs > timeout
    /\ codeCall.run.kind = "TimeoutExpired"
    /\ codeCall.result.kind = "exec_error"

(***************************************************************************)
(* SpecRace: two sessions whose worker threads run in one process and      *)
(* share the slot of core/context_manager.py                               *)
(***************************************************************************)
\* the context each session passes in its run_config (worker.py 45)
ContextOf(s) == IF s = "A" THEN "ctxA" ELSE "ctxB"

\* a slot kept per session instead of per process
FetchContext_PerSession(s) == ContextOf(s)

\* memory_tool.py 8, 16: context = get_active_context(), whoever calls
FetchContext(s) == get_active_context

\* worker_node 193-201 of session s, up to agent_executor.invoke
SessionWorkerEnter(s) ==
    /\ pc[s] = "idle"
    /\ Len(log) < MaxLog
    /\ _global_context' = InstallFromConfig(ContextOf(s), _global_context)
    /\ log' = Append(log, InstallEvent(ContextOf(s)))
    /\ pc' = [pc EXCEPT ![s] = "in_worker"]
    /\ UNCHANGED <<memory, cfgCtx, inWorker, toolCall, raceCall, graphVars,
                   tagVars, idxVars, ragVars, uiVars, codeVars, batchVars,
                   moreVars>>

\* worker_node of session s returns (293-310)
SessionWorkerReturn(s) ==
    /\ pc[s] = "in_worker"
    /\ pc' = [pc EXCEPT ![s] = "idle"]
    /\ UNCHANGED <<raceCall, ctxVars, graphVars, tagVars, idxVars, ragVars,
                   uiVars, codeVars, batchVars, moreVars>>

\* save_memory (memory_tool.py 5-11) called by the agent loop of session s
SessionSave(s, k, v) ==
    /\ pc[s] = "in_worker"
    /\ Len(log) < MaxLog
    /\ LET context == FetchContext(s)
       IN  /\ context # None
           /\ memory' = [memory EXCEPT
                            ![context] = MemoryStore(memory[context], k, v)]
           /\ log' = Append(log, SaveEvent(context, k, v))
           /\ raceCall' = [session |-> s, op |-> "save_memory",
                           own |-> ContextOf(s), seen |-> context,
                           key |-> k, value |-> v, result |-> "Memory saved",
                           at |-> Len(log)]
    /\ UNCHANGED <<_global_context, cfgCtx, inWorker, toolCall, pc,
                   graphVars, tagVars, idxVars, ragVars, uiVars, codeVars,
                   batchVars, moreVars>>

\* read_memory (memory_tool.py 13-18) called by the agent loop of session s
SessionRead(s, k) ==
    /\ pc[s] = "in_worker"
    /\ LET context == FetchContext(s)
       IN  /\ context # None
           /\ raceCall' = [session |-> s, op |-> "read_memory",
                           own |-> ContextOf(s), seen |-> context,
                           key |-> k, value |-> None,
                           result |-> MemoryGet(memory[context], k),
                           at |-> Len(log)]
    /\ UNCHANGED <<pc, ctxVars, graphVars, tagVars, idxVars, ragVars, uiVars,
                   codeVars, batchVars, moreVars>>

InitRace == GraphIdle /\ CtxIdle /\ TagIdle /\ IdxIdle /\ ExtIdle

NextRace ==
    \/ \E s \in Sessions : SessionWorkerEnter(s)
    \/ \E s \in Sessions : SessionWorkerReturn(s)
    \/ \E s \in Sessions, k \in Keys, v \in Values : SessionSave(s, k, v)
    \/ \E s \in Sessions, k \in Keys : SessionRead(s, k)

SpecRace == InitRace /\ [][NextRace]_vars

\* C18: the slot gives no isolation between sessions: a tool call works on
\* the context of the worker that entered last, whichever session that
\* worker belongs to, and reads or writes that context's memory; so when
\* worker A has entered and worker B enters before A's tool fetches the
\* slot, A's tool call acts on B's context.
C18_NoIsolation ==
    raceCall.op # "none"
        => /\ raceCall.seen = LastInstalled(SubSeq(log, 1, raceCall.at))
           /\ raceCall.op = "read_memory"
                 => LET v == LatestSaved(SubSeq(log, 1, raceCall.at),
                                         raceCall.seen, raceCall.key)
                    IN  raceCall.result
                           = IF v = NoVal THEN MemoryNotFound ELSE v
           /\ raceCall.op = "save_memory"
                 => log[raceCall.at + 1]
                       = SaveEvent(raceCall.seen, raceCall.key, raceCall.value)

\* worker A entered, worker B entered, and A's save_memory landed in B's
\* context while A's own context holds nothing under the key
C18_Witness ==
    /\ raceCall.session = "A"
    /\ raceCall.op = "save_memory"
    /\ raceCall.own = "ctxA"
    /\ raceCall.seen = "ctxB"
    /\ pc["A"] = "in_worker"
    /\ pc["B"] = "in_worker"
    /\ memory["ctxB"][raceCall.key] = raceCall.value
    /\ memory["ctxA"][raceCall.key] = NoVal

(***************************************************************************)
(* SpecBatch: step3_vectorize_and_store (init_database.py 70-107)          *)
(***************************************************************************)
\* line 80
batch_size == 10

\* the most documents handed to step 3
MaxChunks == 12

\* line 86: documents[i : i + batch_size], as positions 1..total
Batch(i, total) == (i + 1)..Min(i + batch_size, total)

\* a failed batch dropped as a whole
OnBatchFailure_SkipBatch(i) ==
    [phase |-> "batch", cursor |-> i + batch_size, retryAt |-> 0]

\* lines 91-95: the except branch of a batch starts the loop over its members
OnBatchFailure(i) ==
    [phase |-> "retry", cursor |-> i, retryAt |-> i + 1]

\* lines 87-90 and 91-93: vs.add_documents(batch) goes through or raises
InsertBatch(ok) ==
    /\ phase = "batch"
    /\ cursor < documents
    /\ IF ok
       THEN /\ inserted' = inserted \cup Batch(cursor, documents)
            /\ cursor' = cursor + batch_size
            /\ UNCHANGED <<phase, retryAt, batchLog>>
       ELSE /\ phase' = OnBatchFailure(cursor).phase
            /\ cursor' = OnBatchFailure(cursor).cursor
            /\ retryAt' = OnBatchFailure(cursor).retryAt
            /\ batchLog' = batchLog \cup {cursor}
            /\ UNCHANGED inserted
    /\ UNCHANGED <<documents, failedAlone, graphVars, ctxVars, tagVars,
                   idxVars, ragVars, uiVars, codeVars, raceVars, moreVars>>

\* lines 95-103: vs.add_documents([doc]) for the next member of the failed
\* batch goes through or raises; after the last member the outer loop goes on
RetryDocument(ok) ==
    /\ phase = "retry"
    /\ inserted' = IF ok THEN inserted \cup {retryAt} ELSE inserted
    /\ failedAlone' = IF ok THEN failedAlone ELSE failedAlone \cup {retryAt}
    /\ IF retryAt + 1 \in Batch(cursor, documents)
       THEN /\ retryAt' = retryAt + 1
            /\ UNCHANGED <<phase, cursor>>
       ELSE /\ retryAt' = 0
            /\ phase' = "batch"
            /\ cursor' = cursor + batch_size
    /\ UNCHANGED <<documents, batchLog, graphVars, ctxVars, tagVars,
                   idxVars, ragVars, uiVars, codeVars, raceVars, moreVars>>

\* lines 72-74 and 105-107: nothing (left) to store
StorageComplete ==
    /\ phase = "batch"
    /\ cursor >= documents
    /\ phase' = "done"
    /\ UNCHANGED <<documents, cursor, retryAt, inserted, failedAlone,
                   batchLog, graphVars, ctxVars, tagVars, idxVars, ragVars,
                   uiVars, codeVars, raceVars, moreVars>>

InitBatch ==
    /\ GraphIdle /\ CtxIdle /\ TagIdle /\ IdxIdle
    /\ RagIdle /\ UiIdle /\ CodeIdle /\ RaceIdle /\ MoreIdle
    /\ documents \in 0..MaxChunks
    /\ cursor = 0
    /\ phase = "batch"
    /\ retryAt = 0
    /\ inserted = {}
    /\ failedAlone = {}
    /\ batchLog = {}

NextBatch ==
    \/ \E ok \in BOOLEAN : InsertBatch(ok)
    \/ \E ok \in BOOLEAN : RetryDocument(ok)
    \/ StorageComplete

SpecBatch == InitBatch /\ [][NextBatch]_vars

\* the documents of the batches whose insertion raised
InFailedBatches == UNION {Batch(i, documents) : i \in batchLog}

\* C20: when step 3 has finished, every batch was gone through; a document is
\* missing from the store only if its own insertion raised during the retry
\* of its failed batch, so every member of a failed batch whose individual
\* insertion went through is stored and the batches after a failed one were
\* inserted as well; no batch holds more than batch_size documents.
C20_BatchRetry ==
    /\ failedAlone \subseteq InFailedBatches
    /\ inserted \cap failedAlone = {}
    /\ phase = "retry"
          => cursor \in batchLog /\ retryAt \in Batch(cursor, documents)
    /\ \A d \in 1..Min(cursor, documents) :
          d \in inserted \/ d \in failedAlone
    /\ Cardinality(Batch(cursor, documents)) <= batch_size
    /\ phase = "done"
          => /\ cursor >= documents
             /\ inserted = (1..documents) \ failedAlone

\* the first batch failed, its third document alone was lost, and the batch
\* after it was stored
C20_Witness ==
    /\ phase = "done"
    /\ documents > batch_size
    /\ batchLog = {0}
    /\ failedAlone = {3}
    /\ inserted = (1..documents) \ {3}

(***************************************************************************)
(* SpecTemp: the temporary knowledge base of the session (rag_tool.py      *)
(* 213-284): create_temp_knowledge_base and search_temp_knowledge_base     *)
(***************************************************************************)
MissingPath == "missing.txt"
TempPaths   == AllPaths \cup {MissingPath}

\* utils/document_loader.py 73-118: the documents a walk of a directory loads
load_and_split_documents(path) ==
    IF path = "docs" THEN {Document("docs/c.md", "z")} ELSE {}

\* lines 213-239: the documents loaded from the paths; failing is the set of
\* files whose loader raises
crawl_and_ingest_paths(paths, failing, fs) ==
    UNION {IF p \notin AllPaths \/ fs[p] = NoFile THEN {}
           ELSE IF fs[p] = IsDir THEN load_and_split_documents(p)
           ELSE IF p \in failing THEN {}
           ELSE {Document(p, fs[p])} : p \in paths}

\* lines 250-261 with a context: the store the call leaves and its outcome
CreateTemp(old, docs, embed) ==
    IF docs = {} THEN [store |-> old, outcome |-> "no_documents"]
    ELSE IF embed = "embeddings_raise"
    THEN [store |-> old, outcome |-> "raised"]
    ELSE IF embed = "store_raises"
    THEN [store |-> old, outcome |-> "failed"]
    ELSE [store |-> [made |-> TRUE, docs |-> docs], outcome |-> "created"]

\* create_temp_knowledge_base (241-261)
create_temp_knowledge_base(paths, failing, embed) ==
    /\ LET context == get_active_context
           docs == crawl_and_ingest_paths(paths, failing, files)
           r == CreateTemp(temp_vector_store, docs, embed)
           call == [NoTempCall EXCEPT !.op = "create", !.latest = paths]
       IN  IF context = None
           THEN /\ tempCall' = [call EXCEPT !.outcome = "no_context"]
                /\ UNCHANGED temp_vector_store
           ELSE /\ tempCall' = [call EXCEPT !.outcome = r.outcome]
                /\ temp_vector_store' = r.store
    /\ UNCHANGED <<graphVars, ctxVars, tagVars, idxVars, extVars, winVars,
                   outVars>>

\* the results a search of the store can give: its top four
TopOf(st) ==
    {h \in SUBSET st : Cardinality(h) = Min(TopK, Cardinality(st))}

\* search_temp_knowledge_base (263-284)
search_temp_knowledge_base(search) ==
    /\ LET context == get_active_context
           call == [tempCall EXCEPT !.op = "search", !.hits = {}]
       IN  IF context = None
           THEN tempCall' = [call EXCEPT !.outcome = "no_context"]
           ELSE IF ~temp_vector_store.made
           THEN tempCall' = [call EXCEPT !.outcome = "no_store"]
           ELSE IF search = "raises"
           THEN tempCall' = [call EXCEPT !.outcome = "search_failed"]
           ELSE \E h \in TopOf(temp_vector_store.docs) :
                   tempCall' = [call EXCEPT !.outcome = "found", !.hits = h]
    /\ UNCHANGED <<temp_vector_store, graphVars, ctxVars, tagVars, idxVars,
                   extVars, winVars, outVars>>

InitTemp ==
    /\ GraphIdle /\ CtxIdle /\ TagIdle /\ OwnIdle /\ MoreIdle
    /\ files = [p \in AllPaths |-> IF p \in DirPaths THEN IsDir
                                   ELSE IF p = "a.txt" THEN "x" ELSE "y"]
    /\ store = <<>>
    /\ manifest = EmptyManifest
    /\ idxCall = NoIdxCall
    /\ indexedAs = [p \in AllPaths |-> NoFile]

NextTemp ==
    \/ InstallSession
    \/ \E paths \in SUBSET TempPaths, failing \in SUBSET FilePaths,
          embed \in {"ok", "embeddings_raise", "store_raises"} :
          create_temp_knowledge_base(paths, failing, embed)
    \/ \E search \in {"ok", "raises"} : search_temp_knowledge_base(search)

SpecTemp == InitTemp /\ [][NextTemp]_vars

\* C22: a search of the temporary store returns only documents loaded from
\* the paths of the latest creation call.
C22_OnlyLatestCreation ==
    (tempCall.op = "search" /\ tempCall.outcome = "found")
        => tempCall.hits
              \subseteq crawl_and_ingest_paths(tempCall.latest, {}, files)

(***************************************************************************)
(* SpecWin: the chat window's widgets and worker threads                   *)
(* (ui/main_window.py 54-98, 204-224, 666-710; ui/worker.py 15-22)         *)
(***************************************************************************)
MaxInits   == 2
MaxWorkers == 2
MaxResets  == 3

\* lines 95-98
enable_input(enable) ==
    /\ input_enabled' = enable
    /\ send_enabled' = enable
    /\ cbox_enabled' = enable

\* init_agent (75-83)
init_agent ==
    /\ inits < MaxInits
    /\ enable_input(FALSE)
    /\ inits' = inits + 1
    /\ UNCHANGED <<self_agent, waiting, inflight>>

\* on_model_changed (204-208), the combo box being enabled
on_model_changed ==
    /\ cbox_enabled
    /\ init_agent
    /\ UNCHANGED <<graphVars, ctxVars, tagVars, idxVars, extVars, tempVars,
                   outVars>>

\* AgentInitializeWorker.run (worker.py 15-22) reporting success, and
\* on_agent_initialized (85-89)
on_agent_initialized ==
    /\ inits > 0
    /\ inits' = inits - 1
    /\ self_agent' = TRUE
    /\ enable_input(TRUE)
    /\ UNCHANGED <<waiting, inflight, graphVars, ctxVars, tagVars, idxVars,
                   extVars, tempVars, outVars>>

\* AgentInitializeWorker.run (worker.py 15-22) reporting the exception, and
\* on_agent_init_error (91-93)
on_agent_init_error ==
    /\ inits > 0
    /\ inits' = inits - 1
    /\ enable_input(TRUE)
    /\ UNCHANGED <<self_agent, waiting, inflight, graphVars, ctxVars, tagVars,
                   idxVars, extVars, tempVars, outVars>>

\* on_send_clicked (666-695) as the window runs it, from the Send button or
\* the input box; build is what build_agent does on line 690 when no agent
\* is set
SendClicked(build) ==
    /\ send_enabled \/ input_enabled
    /\ input_enabled' = FALSE
    /\ send_enabled' = FALSE
    /\ waiting' = TRUE
    /\ IF ~self_agent /\ build = "raises"
       THEN UNCHANGED <<self_agent, inflight>>
       ELSE /\ Len(inflight) < MaxWorkers
            /\ self_agent' = TRUE
            /\ inflight' = Append(inflight, thread_id)
    /\ UNCHANGED <<cbox_enabled, inits, graphVars, ctxVars, tagVars, idxVars,
                   extVars, tempVars, outVars>>

\* the sequence without its i-th element
RemoveAt(q, i) == SubSeq(q, 1, i - 1) \o SubSeq(q, i + 1, Len(q))

\* handle_agent_response (697-710) for the result of the i-th turn in flight
handle_agent_response(i) ==
    /\ i \in 1..Len(inflight)
    /\ inflight' = RemoveAt(inflight, i)
    /\ waiting' = FALSE
    /\ input_enabled' = TRUE
    /\ send_enabled' = TRUE
    /\ UNCHANGED <<self_agent, cbox_enabled, inits, graphVars, ctxVars,
                   tagVars, idxVars, extVars, tempVars, outVars>>

\* on_reset_clicked (210-224); the Reset button is never disabled
ResetClicked == thread_id < MaxResets /\ on_reset_clicked

InitWin == GraphIdle /\ CtxIdle /\ TagIdle /\ IdxIdle /\ ExtIdle

NextWin ==
    \/ on_model_changed
    \/ on_agent_initialized
    \/ on_agent_init_error
    \/ \E build \in {"ok", "raises"} : SendClicked(build)
    \/ \E i \in 1..MaxWorkers : handle_agent_response(i)
    \/ ResetClicked

SpecWin == InitWin /\ [][NextWin]_vars

\* every started worker thread reports, and its signal is delivered
SpecWinLive ==
    /\ SpecWin
    /\ WF_vars(on_agent_initialized \/ on_agent_init_error)
    /\ WF_vars(\E i \in 1..MaxWorkers : handle_agent_response(i))

C28_EventuallyReenabled ==
    waiting ~> (input_enabled /\ send_enabled /\ ~waiting)

(***************************************************************************)
(* SpecOut: execute_in_process_code (tools/code_tools.py 44-117) called by *)
(* the threads of the tool executor                                        *)
(***************************************************************************)
MaxCalls == 3

\* lines 55-59: utils.hooks cannot be imported
ExecImportError(t) ==
    /\ frame[t].pc = "idle"
    /\ frame' = [frame EXCEPT
                    ![t] = [NoFrame EXCEPT !.result = "import_error"]]
    /\ UNCHANGED <<sys_stdout, sys_stderr, execCalls>>

\* line 95
SaveStdout(t) ==
    /\ frame[t].pc = "idle"
    /\ execCalls < MaxCalls
    /\ execCalls' = execCalls + 1
    /\ frame' = [frame EXCEPT ![t] = [NoFrame EXCEPT !.pc = "95",
                                         !.call = execCalls + 1,
                                         !.old_stdout = sys_stdout]]
    /\ UNCHANGED <<sys_stdout, sys_stderr>>

\* line 96
SaveStderr(t) ==
    /\ frame[t].pc = "95"
    /\ frame' = [frame EXCEPT ![t].pc = "96", ![t].old_stderr = sys_stderr]
    /\ UNCHANGED <<sys_stdout, sys_stderr, execCalls>>

\* line 99
RedirectStdout(t) ==
    /\ frame[t].pc = "96"
    /\ sys_stdout' = frame[t].call
    /\ frame' = [frame EXCEPT ![t].pc = "99"]
    /\ UNCHANGED <<sys_stderr, execCalls>>

\* line 100
RedirectStderr(t) ==
    /\ frame[t].pc = "99"
    /\ sys_stderr' = frame[t].call
    /\ frame' = [frame EXCEPT ![t].pc = "100"]
    /\ UNCHANGED <<sys_stdout, execCalls>>

\* lines 102-114: exec returns or raises, and the result text is built
ExecCode(t, raises) ==
    /\ frame[t].pc = "100"
    /\ frame' = [frame EXCEPT ![t].pc = "114",
                              ![t].result = IF raises THEN "failed"
                                            ELSE "successful"]
    /\ UNCHANGED <<sys_stdout, sys_stderr, execCalls>>

\* line 116
RestoreStdout(t) ==
    /\ frame[t].pc = "114"
    /\ sys_stdout' = frame[t].old_stdout
    /\ frame' = [frame EXCEPT ![t].pc = "116"]
    /\ UNCHANGED <<sys_stderr, execCalls>>

\* line 117, and the return
RestoreStderr(t) ==
    /\ frame[t].pc = "116"
    /\ sys_stderr' = frame[t].old_stderr
    /\ frame' = [frame EXCEPT ![t].pc = "idle"]
    /\ UNCHANGED <<sys_stdout, execCalls>>

execute_in_process_code(t) ==
    /\ \/ ExecImportError(t)
       \/ SaveStdout(t)
       \/ SaveStderr(t)
       \/ RedirectStdout(t)
       \/ RedirectStderr(t)
       \/ \E raises \in BOOLEAN : ExecCode(t, raises)
       \/ RestoreStdout(t)
       \/ RestoreStderr(t)
    /\ UNCHANGED <<graphVars, ctxVars, tagVars, idxVars, extVars, tempVars,
                   winVars>>

InitOut == GraphIdle /\ CtxIdle /\ TagIdle /\ IdxIdle /\ ExtIdle

NextOut == \E t \in Threads : execute_in_process_code(t)

SpecOut == InitOut /\ [][NextOut]_vars

\* C29: when no call of execute_in_process_code is running, sys.stdout and
\* sys.stderr are the streams the process had before the first call.
C29_StreamsRestored ==
    (\A t \in Threads : frame[t].pc = "idle")
        => sys_stdout = 0 /\ sys_stderr = 0

====
